---- MODULE Spec2Model ----
(***************************************************************************)
(* Map-symbol icon generator: the batch-generation pipeline of main.ts     *)
(* (submit / cancel / refresh handlers over one cooperative event loop)    *)
(* and the rendering engine handle of p5-sketch/generator.ts.              *)
(*                                                                         *)
(* Texts are sequences of one-character strings, so that parseInt,         *)
(* String(), padStart and slugify are computed character by character.     *)
(* Real numbers sampled by p.random are kept in hundredths.                *)
(***************************************************************************)
EXTENDS Integers, Sequences, FiniteSets, TLC

\* ------------------------------------------------------------ constants
MAX_PER_CATEGORY == 6000
MIN_PIXEL_SIZE == 8
MAX_PIXEL_SIZE == 512
PREVIEW_SIZE == 96
DEFAULT_CANVAS_SIZE == 28
\* main.ts:251, a yield after every 200th icon of a category
YIELD_EVERY == 200
\* main.ts:117 and main.ts:135, a yield after every 5th card / preview
PREVIEW_YIELD_EVERY == 5
\* generator.ts: let currentScale = 1, in hundredths
NEUTRAL_SCALE == 100

\* ------------------------------------------------------------ bounds
\* submit events dispatched over the life of the page
MaxSubmits == 2
\* clicks on the refresh button over the life of the page
MaxRefreshes == 1
\* checkbox change events over the life of the page
MaxToggles == 1
\* getIconGenerator callers of the engine specification
MaxCallers == 4
\* the categories whose checkboxes the user changes
ToggleIds == {4, 9}

\* ------------------------------------------------------------ texts
Digit == {"0", "1", "2", "3", "4", "5", "6", "7", "8", "9"}
Lower == {"a", "b", "c", "d", "e", "f", "g", "h", "i", "j", "k", "l", "m",
          "n", "o", "p", "q", "r", "s", "t", "u", "v", "w", "x", "y", "z"}
Upper == {"A", "B", "C", "D", "E", "F", "G", "H", "I", "J", "K", "L", "M",
          "N", "O", "P", "Q", "R", "S", "T", "U", "V", "W", "X", "Y", "Z"}
\* the regular expression class \s, as far as the texts of the model go
Space == {" ", "\t"}
\* the regular expression class \w
WordChar == Digit \cup Lower \cup Upper \cup {"_"}

DigitValue(ch) ==
    CASE ch = "0" -> 0 [] ch = "1" -> 1 [] ch = "2" -> 2 [] ch = "3" -> 3
      [] ch = "4" -> 4 [] ch = "5" -> 5 [] ch = "6" -> 6 [] ch = "7" -> 7
      [] ch = "8" -> 8 [] ch = "9" -> 9

DigitChar(d) ==
    CASE d = 0 -> "0" [] d = 1 -> "1" [] d = 2 -> "2" [] d = 3 -> "3"
      [] d = 4 -> "4" [] d = 5 -> "5" [] d = 6 -> "6" [] d = 7 -> "7"
      [] d = 8 -> "8" [] d = 9 -> "9"

ToLower(ch) ==
    CASE ch = "A" -> "a" [] ch = "B" -> "b" [] ch = "C" -> "c" [] ch = "D" -> "d"
      [] ch = "E" -> "e" [] ch = "F" -> "f" [] ch = "G" -> "g" [] ch = "H" -> "h"
      [] ch = "I" -> "i" [] ch = "J" -> "j" [] ch = "K" -> "k" [] ch = "L" -> "l"
      [] ch = "M" -> "m" [] ch = "N" -> "n" [] ch = "O" -> "o" [] ch = "P" -> "p"
      [] ch = "Q" -> "q" [] ch = "R" -> "r" [] ch = "S" -> "s" [] ch = "T" -> "t"
      [] ch = "U" -> "u" [] ch = "V" -> "v" [] ch = "W" -> "w" [] ch = "X" -> "x"
      [] ch = "Y" -> "y" [] ch = "Z" -> "z" [] OTHER -> ch

Min(a, b) == IF a < b THEN a ELSE b
Max(a, b) == IF a > b THEN a ELSE b

\* String(n) for an integer n: its decimal digits, "-" first when negative
RECURSIVE NatToText(_)
NatToText(n) ==
    IF n < 10 THEN <<DigitChar(n)>>
    ELSE Append(NatToText(n \div 10), DigitChar(n % 10))

NumberToString(n) == IF n < 0 THEN <<"-">> \o NatToText(0 - n) ELSE NatToText(n)

\* String.prototype.padStart(len, "0")
RECURSIVE PadStart(_, _)
PadStart(text, len) ==
    IF Len(text) >= len THEN text ELSE PadStart(<<"0">> \o text, len)

\* the longest prefix of text made of digits, as a number; -1 when it is empty
RECURSIVE DigitsPrefix(_, _, _)
DigitsPrefix(text, i, acc) ==
    IF i > Len(text) \/ text[i] \notin Digit THEN acc
    ELSE DigitsPrefix(text, i + 1, (IF acc < 0 THEN 0 ELSE acc) * 10 + DigitValue(text[i]))

RECURSIVE SkipSpace(_, _)
SkipSpace(text, i) ==
    IF i <= Len(text) /\ text[i] \in Space THEN SkipSpace(text, i + 1) ELSE i

\* Number.parseInt(text, 10): leading white space, an optional sign, then the
\* digits up to the first other character; NaN when there is no digit
ParseInt(text) ==
    LET i == SkipSpace(text, 1)
        signed == i <= Len(text) /\ text[i] \in {"+", "-"}
        neg == signed /\ text[i] = "-"
        mag == DigitsPrefix(text, IF signed THEN i + 1 ELSE i, -1)
    IN  IF mag < 0 THEN [nan |-> TRUE, val |-> 0]
        ELSE [nan |-> FALSE, val |-> IF neg THEN 0 - mag ELSE mag]

\* value.replace(/[^\w\s-]/g, '')
RemoveOther(text) == SelectSeq(text, LAMBDA ch : ch \in WordChar \cup Space \cup {"-"})

\* value.trim()
RECURSIVE TrimEnd(_)
TrimEnd(text) ==
    IF text # <<>> /\ text[Len(text)] \in Space
    THEN TrimEnd(SubSeq(text, 1, Len(text) - 1)) ELSE text

Trim(text) == TrimEnd(SubSeq(text, SkipSpace(text, 1), Len(text)))

\* value.replace(/\s+/g, '-'): every run of white space becomes one hyphen
RECURSIVE ReplaceSpaceRuns(_, _)
ReplaceSpaceRuns(text, i) ==
    IF i > Len(text) THEN <<>>
    ELSE IF text[i] \in Space
         THEN <<"-">> \o ReplaceSpaceRuns(text, SkipSpace(text, i))
         ELSE <<text[i]>> \o ReplaceSpaceRuns(text, i + 1)

\* normalize('NFKD') leaves the ASCII texts of the registry as they are
\* (each stage is bound as a value, so that it is computed once)
slugify(value) ==
    CHOOSE slug \in
        {[i \in 1..Len(hyphened) |-> ToLower(hyphened[i])] :
            hyphened \in {ReplaceSpaceRuns(trimmed, 1) :
                            trimmed \in {Trim(RemoveOther(value))}}} : TRUE

\* ------------------------------------------------------------ registry
\* SYMBOL_CATEGORIES of generator.ts, in order (index i holds id i - 1)
SYMBOL_CATEGORIES == <<
    [id |-> 0, key |-> <<"c","i","t","y","-","h","a","l","l">>],
    [id |-> 1, key |-> <<"p","o","l","i","c","e","-","b","o","x">>],
    [id |-> 2, key |-> <<"h","i","g","h","-","s","c","h","o","o","l">>],
    [id |-> 3, key |-> <<"p","o","s","t","-","o","f","f","i","c","e">>],
    [id |-> 4, key |-> <<"h","o","s","p","i","t","a","l">>],
    [id |-> 5, key |-> <<"s","h","r","i","n","e">>],
    [id |-> 6, key |-> <<"t","e","m","p","l","e">>],
    [id |-> 7, key |-> <<"m","u","s","e","u","m">>],
    [id |-> 8, key |-> <<"f","a","c","t","o","r","y">>],
    [id |-> 9, key |-> <<"c","a","s","t","l","e","-","r","u","i","n","s">>] >>

CategoryIds == {SYMBOL_CATEGORIES[i].id : i \in 1..Len(SYMBOL_CATEGORIES)}

\* ------------------------------------------------------------ rendering
\* values p.random(0.5, 1) may return, in hundredths
ScaleSamples == {50, 75, 99}

\* where a call of generateIcon may throw: nowhere, or at one step of
\* createIconForCategory / applySymbolTransform / ensureCanvasElement
RenderFaults == {"none", "createGraphics", "push", "rotation", "sampleScale",
                 "translate", "rotate", "scale", "offset", "draw", "canvas"}

\* DRAWERS_BY_KEY of generator.ts: the keys that have a drawing routine
DRAWERS_BY_KEY == {
    <<"c","i","t","y","-","h","a","l","l">>,
    <<"p","o","l","i","c","e","-","b","o","x">>,
    <<"h","i","g","h","-","s","c","h","o","o","l">>,
    <<"p","o","s","t","-","o","f","f","i","c","e">>,
    <<"h","o","s","p","i","t","a","l">>,
    <<"s","h","r","i","n","e">>,
    <<"t","e","m","p","l","e">>,
    <<"m","u","s","e","u","m">>,
    <<"f","a","c","t","o","r","y">>,
    <<"c","a","s","t","l","e","-","r","u","i","n","s">>,
    <<"h","o","t","-","s","p","r","i","n","g">>,
    <<"f","i","s","h","i","n","g","-","p","o","r","t">>,
    <<"o","r","c","h","a","r","d">>,
    <<"b","r","o","a","d","l","e","a","f","-","f","o","r","e","s","t">>,
    <<"c","o","n","i","f","e","r","o","u","s","-","f","o","r","e","s","t">>,
    <<"l","i","b","r","a","r","y">>,
    <<"w","i","n","d","m","i","l","l">> }

\* a table built without the test for a missing drawer: the entry is empty
BuildDrawersLenient(categories) ==
    [threw |-> FALSE,
     drawers |-> [i \in 1..Len(categories) |->
                     IF categories[i].key \in DRAWERS_BY_KEY THEN categories[i].key
                     ELSE <<>>]]

\* SYMBOL_CATEGORIES.map(({ key }) => ...) over a registry (part_001 lines
\* 391-397): the drawer of each entry, by index, a routine being named by its
\* key; or the throw at the first key without a drawer
BuildDrawers(categories) ==
    IF \E i \in 1..Len(categories) : categories[i].key \notin DRAWERS_BY_KEY
    THEN [threw |-> TRUE, drawers |-> <<>>]
    ELSE [threw |-> FALSE,
          drawers |-> [i \in 1..Len(categories) |-> categories[i].key]]

\* DRAWERS: the drawer of each registry entry, by index
DRAWERS == BuildDrawers(SYMBOL_CATEGORIES).drawers

\* applySymbolTransform(p, g, size, draw) with the scale sample `sample`, a
\* throw at step `fault` (if it is one of the transform's steps) and
\* currentScale = scale at the call.  pushed is the depth of g's saved
\* drawing state at exit.  Only draw() is inside the try block.
applySymbolTransform(fault, sample, scale) ==
    IF fault = "push"
    THEN [threw |-> TRUE, currentScale |-> scale, pushed |-> 0, drawn |-> FALSE]
    ELSE IF fault \in {"rotation", "sampleScale"}
    THEN [threw |-> TRUE, currentScale |-> scale, pushed |-> 1, drawn |-> FALSE]
    ELSE IF fault \in {"translate", "rotate", "scale", "offset"}
    THEN [threw |-> TRUE, currentScale |-> sample, pushed |-> 1, drawn |-> FALSE]
    ELSE \* try { draw() } finally { g.pop(); currentScale = 1 }
         [threw |-> fault = "draw", currentScale |-> NEUTRAL_SCALE, pushed |-> 0,
          drawn |-> fault # "draw"]

\* createIconForCategory(categoryId, size, p) at currentScale = scale:
\* ok and the icon (the content of the data URL), or a throw; with what the
\* call leaves behind
createIconForCategory(categoryId, size, fault, sample, scale) ==
    LET canvasSize == Max(8, size)
        t == applySymbolTransform(fault, sample, scale)
        none == [id |-> -1, size |-> 0, drawer |-> <<>>]
    IN  IF categoryId < 0 \/ categoryId >= Len(SYMBOL_CATEGORIES)
        THEN [ok |-> FALSE, icon |-> none, currentScale |-> scale,
              created |-> FALSE, pushed |-> 0, drawn |-> FALSE, removed |-> FALSE]
        ELSE IF fault = "createGraphics"
        THEN [ok |-> FALSE, icon |-> none, currentScale |-> scale,
              created |-> FALSE, pushed |-> 0, drawn |-> FALSE, removed |-> FALSE]
        ELSE IF t.threw
        THEN [ok |-> FALSE, icon |-> none, currentScale |-> t.currentScale,
              created |-> TRUE, pushed |-> t.pushed, drawn |-> FALSE, removed |-> FALSE]
        ELSE IF fault = "canvas"
        THEN [ok |-> FALSE, icon |-> none, currentScale |-> t.currentScale,
              created |-> TRUE, pushed |-> t.pushed, drawn |-> TRUE, removed |-> FALSE]
        ELSE [ok |-> TRUE,
              icon |-> [id |-> categoryId, size |-> canvasSize,
                        drawer |-> DRAWERS[categoryId + 1]],
              currentScale |-> t.currentScale,
              created |-> TRUE, pushed |-> t.pushed, drawn |-> TRUE, removed |-> TRUE]

\* ------------------------------------------------------------ archive
\* `${String(index + 1).padStart(2, '0')}_${slugify(category.key)}`
FolderName(index, key) ==
    PadStart(NumberToString(index + 1), 2) \o <<"_">> \o slugify(key)

\* a numbering from 0000: String(iconIndex).padStart(4, '0')
FileNameFromZero(iconIndex) ==
    PadStart(NumberToString(iconIndex), 4) \o <<".", "p", "n", "g">>

\* `${String(iconIndex + 1).padStart(4, '0')}.png`
FileName(iconIndex) ==
    PadStart(NumberToString(iconIndex + 1), 4) \o <<".", "p", "n", "g">>

\* new JSZip(): the folders in creation order, each a map from file name to data
EmptyZip == <<>>

HasFolder(zip, name) == \E i \in 1..Len(zip) : zip[i].name = name

FolderIndex(zip, name) == CHOOSE i \in 1..Len(zip) : zip[i].name = name

\* zip.folder(name): the folder of that name, created last when there is none
ZipFolder(zip, name) ==
    IF HasFolder(zip, name) THEN zip ELSE Append(zip, [name |-> name, files |-> <<>>])

\* the calls folder.file(FileName(j), data) of the iterations first, ...,
\* first + count - 1 of the inner loop (lines 246-249): each sets (or
\* replaces) the entry of its name
ZipFiles(zip, folder, first, count, data) ==
    IF count <= 0 THEN zip
    ELSE [zip EXCEPT ![FolderIndex(zip, folder)].files =
             [name \in {FileName(j) : j \in first..(first + count - 1)} |-> data] @@ @]

\* ------------------------------------------------------------ state
VARIABLES
    started,             \* the module script of main.ts has run (lines 281-282)
    promises,            \* the promises createGenerator made, one per p5 instance
    generatorPromise,    \* generator.ts: 0 is null, else an index of promises
    currentScale,        \* generator.ts: the shared scale slot, in hundredths
    generator,           \* main.ts: 0 is null, else the handle (the promise's index)
    initialized,
    isGenerating,
    cancelRequested,
    selectedCategories,
    previewImages,       \* the keys of the Map, in insertion order
    categoryList,        \* the cards of #category-list, in document order
    countInput,          \* countInput.value
    pixelInput,          \* pixelInput.value
    ui,                  \* the disabled flags updateUiState and the handlers set
    tasks,               \* the async invocations: startup, submit, refresh handlers
    microtasks,          \* continuations ready to run, first in first out
    rafQueue,            \* requestAnimationFrame callbacks waiting for the next frame
    frame,               \* the callbacks of the frame being run
    toggles              \* checkbox change events so far

vars == <<started, promises, generatorPromise, currentScale, generator, initialized,
          isGenerating, cancelRequested, selectedCategories, previewImages,
          categoryList, countInput, pixelInput, ui, tasks, microtasks, rafQueue,
          frame, toggles>>

engineVars == <<promises, generatorPromise>>
flagVars == <<isGenerating, cancelRequested>>
gridVars == <<selectedCategories, previewImages, categoryList>>
inputVars == <<countInput, pixelInput>>

TaskIds == 1..Len(tasks)

\* one async invocation; cancelAt and log are history: where the run stood
\* when a cancel click was accepted, and the messages it reported; progress
\* is the last progress line of the loop (line 252)
NewTask(kind, pc) ==
    [kind |-> kind, pc |-> pc, promise |-> 0, handle |-> 0,
     gridNext |-> 0, pos |-> 0,
     active |-> <<>>, index |-> 0, folder |-> <<>>, iconIndex |-> 0, perCategory |-> 0,
     parsedCount |-> 0, parsedPixel |-> 0,
     pixelSize |-> 0, zip |-> EmptyZip, saved |-> 0, icons |-> 0,
     progress |-> <<>>, call |-> <<>>, cancelAt |-> <<>>, log |-> <<>>]

\* the record of a handler that has returned: its locals are gone, the
\* messages it reported and its downloads are kept
Finished(k, log) == [NewTask(k.kind, "done") EXCEPT !.log = log, !.saved = k.saved]

\* the run of task t is between its start (line 219) and its finally block
InRun(t) == tasks[t].kind = "submit" /\ tasks[t].pc \in {"loop", "compress", "postRefresh"}

Running == {t \in TaskIds : InRun(t)}

CountKind(kind) == Cardinality({t \in TaskIds : tasks[t].kind = kind})

\* no handler is running and none is about to: the host may dispatch an event
Idle == microtasks = <<>> /\ frame = <<>>

\* the continuation the event loop runs next, and what is left after it
NextUp == IF microtasks # <<>> THEN Head(microtasks)
          ELSE IF frame # <<>> THEN Head(frame) ELSE 0
RestMicro == IF microtasks # <<>> THEN Tail(microtasks) ELSE <<>>
RestFrame == IF microtasks # <<>> THEN frame ELSE Tail(frame)

\* updateUiState(): the buttons and the inputs
updateUiState(generating, init) ==
    [generate |-> generating, cancel |-> ~generating, count |-> generating,
     pixel |-> generating, refresh |-> generating \/ ~init]

\* updateUiState(): the checkboxes of the cards
DisableCards(list, generating) ==
    [i \in 1..Len(list) |-> [list[i] EXCEPT !.disabled = generating]]

\* ------------------------------------------------------------ engine handle
\* createGenerator(): a new promise, resolved by the setup of a new p5 instance
createGenerator(ps) == Append(ps, [resolved |-> FALSE, waiters |-> <<>>])

\* a getIconGenerator that keeps no promise: createGenerator() on every call
getIconGeneratorAnew(gp, ps) ==
    [generatorPromise |-> Len(ps) + 1, promises |-> createGenerator(ps)]

\* getIconGenerator(): makes the promise on the first call, returns it on all
getIconGenerator(gp, ps) ==
    IF gp = 0
    THEN [generatorPromise |-> Len(ps) + 1, promises |-> createGenerator(ps)]
    ELSE [generatorPromise |-> gp, promises |-> ps]

\* await promise (task t): queued behind the waiters, or ready when resolved
AwaitPromise(ps, id, t) == [ps EXCEPT ![id].waiters = Append(@, t)]

\* p.setup of the p5 instance of promise id: resolve(handle)
P5Setup ==
    \E id \in 1..Len(promises) :
        /\ Idle
        /\ ~promises[id].resolved
        /\ promises' = [promises EXCEPT ![id].resolved = TRUE, ![id].waiters = <<>>]
        /\ microtasks' = promises[id].waiters
        /\ tasks' = [t \in TaskIds |->
                        IF tasks[t].pc = "awaitGenerator" /\ tasks[t].promise = id
                        THEN [tasks[t] EXCEPT !.handle = id] ELSE tasks[t]]
        /\ UNCHANGED <<started, generatorPromise, currentScale, generator, initialized,
                       flagVars, gridVars, inputVars, ui, rafQueue, frame, toggles>>

\* a caller of the exported getIconGenerator other than main.ts
CallGetIconGenerator ==
    LET g == getIconGenerator(generatorPromise, promises)
        t == Len(tasks) + 1
        resolved == g.promises[g.generatorPromise].resolved
    IN  /\ Idle
        /\ CountKind("caller") < MaxCallers
        /\ generatorPromise' = g.generatorPromise
        /\ promises' = IF resolved THEN g.promises
                       ELSE AwaitPromise(g.promises, g.generatorPromise, t)
        /\ microtasks' = IF resolved THEN <<t>> ELSE <<>>
        /\ tasks' = Append(tasks, [NewTask("caller", "awaitGenerator") EXCEPT
                                      !.promise = g.generatorPromise,
                                      !.handle = IF resolved THEN g.generatorPromise ELSE 0])
        /\ UNCHANGED <<started, currentScale, generator, initialized, flagVars, gridVars,
                       inputVars, ui, rafQueue, frame, toggles>>

\* the caller's continuation: it holds the handle
ContinueCaller ==
    \E t \in TaskIds :
        /\ t = NextUp
        /\ tasks[t].kind = "caller"
        /\ tasks[t].pc = "awaitGenerator"
        /\ tasks' = [tasks EXCEPT ![t].pc = "done"]
        /\ microtasks' = RestMicro
        /\ frame' = RestFrame
        /\ UNCHANGED <<started, engineVars, currentScale, generator, initialized, flagVars,
                       gridVars, inputVars, ui, rafQueue, toggles>>

\* ------------------------------------------------------------ category grid
\* Map.prototype.set on the keys: a new key goes last, a known key stays
MapSet(keys, k) ==
    IF \E i \in 1..Len(keys) : keys[i] = k THEN keys ELSE Append(keys, k)

\* renderCategoryGrid from registry index `from`: the index of the last card
\* made before the next yield (after each id with (id + 1) % 5 = 0), or the
\* last index of the registry
GridStop(from) ==
    LET n == Len(SYMBOL_CATEGORIES)
        stops == {i \in from..n : (SYMBOL_CATEGORIES[i].id + 1) % PREVIEW_YIELD_EVERY = 0}
    IN  IF stops = {} THEN n ELSE CHOOSE i \in stops : \A j \in stops : i <= j

\* createCategoryCard for the registry entries from..to: the new cards are
\* checked and enabled; each id is added to the previews and to the selection
createCategoryCard(g, from, to) ==
    [categoryList |-> g.categoryList \o
        [i \in 1..(to - from + 1) |->
            [id |-> SYMBOL_CATEGORIES[from + i - 1].id, checked |-> TRUE,
             disabled |-> FALSE]],
     previewImages |-> g.previewImages \o
        SelectSeq([i \in 1..(to - from + 1) |-> SYMBOL_CATEGORIES[from + i - 1].id],
                  LAMBDA id : \A j \in 1..Len(g.previewImages) : g.previewImages[j] # id),
     selectedCategories |-> g.selectedCategories \cup
        {SYMBOL_CATEGORIES[i].id : i \in from..to}]

\* renderCategoryGrid resumed at registry index `from` (1 on entry) by task t
\* of the queue rest mq / fr: cards up to the next yield, or the end of the
\* grid, after which ensureGenerator returns and a submit handler goes on.
\* The generateIcon call of each card (line 94) leaves currentScale neutral.
renderCategoryGrid(t, from, g, mq, fr) ==
    LET n == Len(SYMBOL_CATEGORIES)
        to == GridStop(from)
        made == IF from > n THEN g ELSE createCategoryCard(g, from, to)
        yields == from <= n /\ (SYMBOL_CATEGORIES[to].id + 1) % PREVIEW_YIELD_EVERY = 0
    IN  /\ selectedCategories' = made.selectedCategories
        /\ previewImages' = made.previewImages
        /\ currentScale' = IF from > n THEN currentScale ELSE NEUTRAL_SCALE
        /\ IF yields
           THEN /\ categoryList' = made.categoryList
                /\ ui' = ui
                /\ tasks' = [tasks EXCEPT ![t].pc = "grid", ![t].gridNext = to + 1]
                /\ rafQueue' = Append(rafQueue, t)
                /\ microtasks' = mq
           ELSE /\ categoryList' = DisableCards(made.categoryList, isGenerating)
                /\ ui' = updateUiState(isGenerating, initialized')
                /\ rafQueue' = rafQueue
                /\ IF tasks[t].kind = "submit"
                   THEN /\ tasks' = [tasks EXCEPT ![t].pc = "validate"]
                        /\ microtasks' = Append(mq, t)
                   ELSE /\ tasks' = [tasks EXCEPT ![t] = Finished(tasks[t], <<>>)]
                        /\ microtasks' = mq
        /\ frame' = fr

\* ensureGenerator after `await getIconGenerator()` (lines 148-151)
ContinueEnsure ==
    \E t \in TaskIds :
        /\ t = NextUp
        /\ tasks[t].kind \in {"init", "submit"}
        /\ tasks[t].pc = "awaitGenerator"
        /\ generator' = tasks[t].handle
        /\ initialized' = TRUE
        /\ renderCategoryGrid(t, 1, [categoryList |-> <<>>, previewImages |-> <<>>,
                                     selectedCategories |-> {}], RestMicro, RestFrame)
        /\ UNCHANGED <<started, engineVars, flagVars, inputVars, toggles>>

\* renderCategoryGrid after `await yieldToBrowser()` (line 118)
ContinueGrid ==
    \E t \in TaskIds :
        /\ t = NextUp
        /\ tasks[t].pc = "grid"
        /\ UNCHANGED <<started, engineVars, generator, initialized,
                       flagVars, inputVars, toggles>>
        /\ renderCategoryGrid(t, tasks[t].gridNext,
                              [categoryList |-> categoryList,
                               previewImages |-> previewImages,
                               selectedCategories |-> selectedCategories],
                              RestMicro, RestFrame)

\* lines 281-282: updateUiState(); void ensureGenerator()
Startup ==
    LET g == getIconGenerator(generatorPromise, promises)
        t == Len(tasks) + 1
        resolved == g.promises[g.generatorPromise].resolved
    IN  /\ ~started
        /\ Idle
        /\ started' = TRUE
        /\ ui' = updateUiState(isGenerating, initialized)
        /\ generatorPromise' = g.generatorPromise
        /\ promises' = IF resolved THEN g.promises
                       ELSE AwaitPromise(g.promises, g.generatorPromise, t)
        /\ microtasks' = IF resolved THEN <<t>> ELSE <<>>
        /\ tasks' = Append(tasks, [NewTask("init", "awaitGenerator") EXCEPT
                                      !.promise = g.generatorPromise,
                                      !.handle = IF resolved THEN g.generatorPromise ELSE 0])
        /\ UNCHANGED <<currentScale, generator, initialized, flagVars, gridVars,
                       inputVars, rafQueue, frame, toggles>>

\* the change listener of a card's checkbox (lines 81-88)
Toggle ==
    \E i \in 1..Len(categoryList) :
        LET card == categoryList[i]
            flipped == [categoryList EXCEPT ![i].checked = ~@]
        IN  /\ Idle
            /\ toggles < MaxToggles
            /\ card.id \in ToggleIds
            /\ ~card.disabled
            /\ toggles' = toggles + 1
            /\ selectedCategories' = IF card.checked
                                     THEN selectedCategories \ {card.id}
                                     ELSE selectedCategories \cup {card.id}
            /\ categoryList' = DisableCards(flipped, isGenerating)
            /\ ui' = updateUiState(isGenerating, initialized)
            /\ UNCHANGED <<started, engineVars, currentScale, generator, initialized,
                           flagVars, previewImages, inputVars, tasks, microtasks,
                           rafQueue, frame>>

\* the host runs a frame: the callbacks registered so far, in order
BeginFrame ==
    /\ Idle
    /\ rafQueue # <<>>
    /\ frame' = rafQueue
    /\ rafQueue' = <<>>
    /\ UNCHANGED <<started, engineVars, currentScale, generator, initialized, flagVars,
                   gridVars, inputVars, ui, tasks, microtasks, toggles>>

\* ------------------------------------------------------------ generation run
\* what the backend does to the calls of generateIcon of one synchronous
\* stretch of a run: nothing, or the at-th call (or the folder creation before
\* it) fails with `fault`, the scale sampled by that call being `sample`
NoFault == [at |-> 0, fault |-> "none", sample |-> 50]

\* the faults a run is checked against: a call that leaves currentScale at
\* its sample, one that leaves it neutral, a failing zip.folder (which leaves
\* it as it was) and a rejected zip.generateAsync
RunFaults == {"scale", "canvas", "folder", "generateAsync"}
RunSamples == {75}

\* the choices for a stretch of at most n calls; none but NoFault when the
\* backend is taken to work
FaultChoices(n, faulty, kinds) ==
    IF faulty
    THEN {NoFault} \cup [at : 1..n, fault : RunFaults \cap kinds, sample : RunSamples]
    ELSE {NoFault}

\* SYMBOL_CATEGORIES.filter((category) => selectedCategories.has(category.id))
ActiveCategories(selected) == SelectSeq(SYMBOL_CATEGORIES, LAMBDA c : c.id \in selected)

\* a loop that yields only after the last icon of a category
NextYieldAtEnd(first, perCategory) == perCategory

\* the number of the first icon from iteration `first` on after which the
\* loop yields: (iconIndex + 1) % 200 === 0 || iconIndex + 1 === perCategory
\* (line 251)
NextYield(first, perCategory) ==
    Min((first \div YIELD_EVERY + 1) * YIELD_EVERY, perCategory)

\* the nested loop of lines 230-256 from the position of task record run
\* (named k once its value is taken), up to
\* the next yield, a throw, or the end of the outer loop.  cancel is
\* cancelRequested (it cannot change inside a stretch), n the generateIcon
\* calls made in this stretch before the ones of the inner loop, scale is
\* currentScale.  The iterations of the inner loop between two yields are
\* taken together: each good call files its icon and leaves currentScale
\* neutral, the failing one (if any) ends the stretch.
\* k is the value of run, bound so that it is computed once.
RECURSIVE InnerLoop(_, _, _, _, _)
RECURSIVE OuterLoop(_, _, _, _, _)
InnerLoop(run, cancel, f, n, scale) ==
    CHOOSE stretch \in {
        IF k.iconIndex < k.perCategory
        THEN IF cancel
             THEN OuterLoop([k EXCEPT !.index = @ + 1], cancel, f, n, scale)
             ELSE LET category == k.active[k.index + 1]
                      first == k.iconIndex
                      \* the iteration stop - 1 is the next one that yields
                      stop == NextYield(first, k.perCategory)
                      failing == /\ f.at \in (n + 1)..(n + stop - first)
                                 /\ f.fault \in RenderFaults \ {"none"}
                      good == IF failing THEN f.at - n - 1 ELSE stop - first
                      icon == createIconForCategory(category.id, k.pixelSize, "none",
                                                    f.sample, NEUTRAL_SCALE).icon
                      failed == createIconForCategory(category.id, k.pixelSize, f.fault,
                                    f.sample, IF good = 0 THEN scale ELSE NEUTRAL_SCALE)
                      filed == [k EXCEPT !.zip = ZipFiles(@, k.folder, first, good, icon),
                                         !.icons = @ + good]
                  IN  IF failing
                      THEN [task |-> [filed EXCEPT !.iconIndex = first + good],
                            status |-> "threw", scale |-> failed.currentScale]
                      ELSE [task |-> [filed EXCEPT
                                         !.iconIndex = stop - 1,
                                         !.progress = <<[category |-> category.id,
                                                         produced |-> stop,
                                                         total |-> k.perCategory]>>],
                            status |-> "yield", scale |-> NEUTRAL_SCALE]
        ELSE OuterLoop([k EXCEPT !.index = @ + 1], cancel, f, n, scale)
        : k \in {run}} : TRUE

OuterLoop(run, cancel, f, n, scale) ==
    CHOOSE stretch \in {
        IF k.index < Len(k.active)
        THEN IF cancel
             THEN [task |-> k, status |-> "ended", scale |-> scale]
             ELSE IF f.fault = "folder" /\ f.at = n + 1
             THEN [task |-> k, status |-> "threw", scale |-> scale]
             ELSE InnerLoop([k EXCEPT !.zip = ZipFolder(@, folderName),
                                      !.folder = folderName,
                                      !.iconIndex = 0],
                            cancel, f, n, scale)
        ELSE [task |-> k, status |-> "ended", scale |-> scale]
        : k \in {run},
          folderName \in {IF run.index < Len(run.active)
                          THEN FolderName(run.index, run.active[run.index + 1].key)
                          ELSE <<>>}} : TRUE

\* a finally block that leaves the run flagged as going on
FinallyStillGenerating ==
    /\ isGenerating' = TRUE
    /\ cancelRequested' = FALSE
    /\ ui' = updateUiState(TRUE, initialized)
    /\ categoryList' = DisableCards(categoryList, TRUE)

\* a finally block that leaves the cancel request standing
FinallyKeepsRequest ==
    /\ isGenerating' = FALSE
    /\ cancelRequested' = cancelRequested
    /\ ui' = updateUiState(FALSE, initialized)
    /\ categoryList' = DisableCards(categoryList, FALSE)

\* the finally block (lines 274-278) as seen by the other state
Finally ==
    /\ isGenerating' = FALSE
    /\ cancelRequested' = FALSE
    /\ ui' = updateUiState(FALSE, initialized)
    /\ categoryList' = DisableCards(categoryList, FALSE)

\* a yield whose requestAnimationFrame callback is never registered
AfterStretchLost(t, r, cancel, mq, fr) ==
    /\ currentScale' = r.scale
    /\ microtasks' = mq
    /\ frame' = fr
    /\ rafQueue' = rafQueue
    /\ tasks' = [tasks EXCEPT ![t] =
                    IF r.status = "yield" THEN [r.task EXCEPT !.pc = "loop"]
                    ELSE IF r.status = "threw"
                    THEN Finished(r.task, Append(r.task.log, "error"))
                    ELSE IF cancel
                    THEN Finished(r.task, Append(r.task.log, "cancelled"))
                    ELSE [r.task EXCEPT !.pc = "compress",
                                        !.log = Append(@, "compressing")]]

\* a stretch that ends in a throw is taken for a yield: the loop goes on
AfterStretchRetry(t, r, cancel, mq, fr) ==
    /\ currentScale' = r.scale
    /\ microtasks' = mq
    /\ frame' = fr
    /\ tasks' = [tasks EXCEPT ![t] =
                    [r.task EXCEPT !.pc = "loop",
                                   !.log = IF r.status = "threw" THEN Append(@, "error")
                                           ELSE @]]
    /\ rafQueue' = Append(rafQueue, t)

\* what follows a stretch r of the loop in task t: the yield of line 253, the
\* catch and finally blocks, the cancelled return of lines 258-261, or the
\* start of the compression (lines 263-264).  The flags are set by the caller
\* when the run goes on.
AfterStretch(t, r, cancel, mq, fr) ==
    /\ currentScale' = r.scale
    /\ microtasks' = mq
    /\ frame' = fr
    /\ CASE r.status = "yield" ->
              /\ tasks' = [tasks EXCEPT ![t] = [r.task EXCEPT !.pc = "loop"]]
              /\ rafQueue' = Append(rafQueue, t)
         [] r.status = "threw" ->
              /\ tasks' = [tasks EXCEPT ![t] = Finished(r.task, Append(r.task.log, "error"))]
              /\ rafQueue' = rafQueue
         [] r.status = "ended" /\ cancel ->
              /\ tasks' = [tasks EXCEPT ![t] =
                              Finished(r.task, Append(r.task.log, "cancelled"))]
              /\ rafQueue' = rafQueue
         [] r.status = "ended" /\ ~cancel ->
              /\ tasks' = [tasks EXCEPT ![t] =
                              [r.task EXCEPT !.pc = "compress",
                                             !.log = Append(@, "compressing")]]
              /\ rafQueue' = rafQueue

\* a count without its upper bound: Math.max(1, parsedCount)
ClampCountUnbounded(n) == Max(1, n)

\* Math.min(MAX_PER_CATEGORY, Math.max(1, parsedCount)) (line 196)
ClampCount(n) == Min(MAX_PER_CATEGORY, Max(1, n))

\* Math.min(MAX_PIXEL_SIZE, Math.max(MIN_PIXEL_SIZE, parsedPixel)) (line 207)
ClampPixel(n) == Min(MAX_PIXEL_SIZE, Max(MIN_PIXEL_SIZE, n))

\* the submit handler after `await ensureGenerator()` (lines 185-256): the
\* checks of the inputs, then the start of the run and its first stretch
ValidateStep(faulty) ==
    \E t \in TaskIds :
        LET parsedCount == ParseInt(countInput)
            perCategory == ClampCount(parsedCount.val)
            parsedPixel == ParseInt(pixelInput)
            pixelSize == ClampPixel(parsedPixel.val)
            activeCategories == ActiveCategories(selectedCategories)
            run == [tasks[t] EXCEPT !.active = activeCategories,
                                    !.parsedCount = parsedCount.val,
                                    !.parsedPixel = parsedPixel.val,
                                    !.perCategory = perCategory,
                                    !.pixelSize = pixelSize,
                                    !.zip = EmptyZip,
                                    !.log = <<"started">>]
            Reject(why) ==
                /\ tasks' = [tasks EXCEPT ![t] = Finished(tasks[t], <<why>>)]
                /\ microtasks' = RestMicro
                /\ frame' = RestFrame
                /\ UNCHANGED <<currentScale, flagVars, ui, categoryList, rafQueue>>
        IN  /\ t = NextUp
            /\ tasks[t].kind = "submit"
            /\ tasks[t].pc = "validate"
            /\ UNCHANGED <<started, engineVars, generator, initialized,
                           selectedCategories, previewImages, toggles>>
            /\ IF parsedCount.nan \/ parsedCount.val <= 0
               THEN Reject("badCount") /\ UNCHANGED inputVars
               ELSE /\ countInput' = IF perCategory # parsedCount.val
                                     THEN NumberToString(perCategory) ELSE countInput
                    /\ IF parsedPixel.nan \/ parsedPixel.val < MIN_PIXEL_SIZE
                       THEN Reject("badPixel") /\ UNCHANGED pixelInput
                       ELSE /\ pixelInput' = IF pixelSize # parsedPixel.val
                                             THEN NumberToString(pixelSize) ELSE pixelInput
                            /\ IF selectedCategories = {}
                               THEN Reject("noCategory")
                               ELSE \E f \in FaultChoices(Min(YIELD_EVERY, perCategory), faulty, RenderFaults \cup {"folder"}) :
                                      \E r \in {OuterLoop(run, FALSE, f, 0, currentScale)} :
                                          /\ AfterStretch(t, r, FALSE, RestMicro, RestFrame)
                                          /\ IF r.status = "threw"
                                             THEN Finally
                                             ELSE /\ isGenerating' = TRUE
                                                  /\ cancelRequested' = FALSE
                                                  /\ ui' = updateUiState(TRUE, initialized)
                                                  /\ categoryList' = DisableCards(categoryList, TRUE)

\* the loop after `await yieldToBrowser()` (line 253): iconIndex += 1 and the
\* next stretch
LoopStep(faulty) ==
    \E t \in TaskIds :
        /\ t = NextUp
        /\ tasks[t].pc = "loop"
        /\ \E f \in FaultChoices(Min(YIELD_EVERY, tasks[t].perCategory), faulty,
                               RenderFaults \cup {"folder"}) :
             \E r \in {InnerLoop([tasks[t] EXCEPT !.iconIndex = @ + 1], cancelRequested,
                                 f, 0, currentScale)} :
                 /\ AfterStretch(t, r, cancelRequested, RestMicro, RestFrame)
                 /\ IF r.status \in {"yield"} \/ (r.status = "ended" /\ ~cancelRequested)
                    THEN UNCHANGED <<flagVars, ui, categoryList>>
                    ELSE Finally
        /\ UNCHANGED <<started, engineVars, generator, initialized, selectedCategories,
                       previewImages, inputVars, toggles>>

\* the click listener of the cancel button (lines 163-170)
CancelClick ==
    /\ Idle
    /\ ~ui.cancel
    /\ isGenerating /\ ~cancelRequested
    /\ cancelRequested' = TRUE
    /\ ui' = [ui EXCEPT !.cancel = TRUE]
    /\ tasks' = [t \in TaskIds |->
                    IF InRun(t) /\ tasks[t].cancelAt = <<>>
                    THEN [tasks[t] EXCEPT !.cancelAt =
                             <<[pc |-> tasks[t].pc, index |-> tasks[t].index,
                                iconIndex |-> tasks[t].iconIndex]>>]
                    ELSE tasks[t]]
    /\ UNCHANGED <<started, engineVars, currentScale, generator, initialized,
                   isGenerating, gridVars, inputVars, microtasks, rafQueue, frame,
                   toggles>>

\* ------------------------------------------------------------ previews
\* refreshCategoryPreviews from entry pos of previewImages (entries visited
\* so far, which is also its counter): up to the next yield (after every 5th
\* entry), a throw of generateIcon, or the end of the map
refreshCategoryPreviews(pos, f, scale) ==
    LET len == Len(previewImages)
        next == (pos \div PREVIEW_YIELD_EVERY + 1) * PREVIEW_YIELD_EVERY
        stop == IF pos >= len THEN pos ELSE Min(next, len)
        calls == stop - pos
        failing == f.at \in 1..calls /\ f.fault \in RenderFaults \ {"none"}
        made == createIconForCategory(previewImages[pos + f.at], PREVIEW_SIZE, f.fault,
                    f.sample, IF f.at = 1 THEN scale ELSE NEUTRAL_SCALE)
    IN  IF failing
        THEN [pos |-> pos + f.at - 1, status |-> "threw", scale |-> made.currentScale]
        ELSE [pos |-> stop,
              status |-> IF calls > 0 /\ stop % PREVIEW_YIELD_EVERY = 0
                         THEN "yield" ELSE "ended",
              scale |-> IF calls > 0 THEN NEUTRAL_SCALE ELSE scale]

\* line 269 onwards in task t, whose record is k: a stretch r of the preview
\* refresh, then the yield, or the catch block, and the finally block
PostRefresh(t, k, r, mq, fr) ==
    /\ currentScale' = r.scale
    /\ microtasks' = mq
    /\ frame' = fr
    /\ IF r.status = "yield"
       THEN /\ tasks' = [tasks EXCEPT ![t] = [k EXCEPT !.pc = "postRefresh", !.pos = r.pos]]
            /\ rafQueue' = Append(rafQueue, t)
            /\ UNCHANGED <<flagVars, ui, categoryList>>
       ELSE /\ tasks' = [tasks EXCEPT ![t] =
                            Finished(k, IF r.status = "threw"
                                        THEN Append(k.log, "error") ELSE k.log)]
            /\ rafQueue' = rafQueue
            /\ Finally

\* zip.generateAsync settles (line 264): saveAs, the completed message and the
\* first stretch of the preview refresh; or its rejection is caught
ZipStep(faulty) ==
    \E t \in TaskIds :
        /\ Idle
        /\ tasks[t].pc = "compress"
        /\ UNCHANGED <<started, engineVars, generator, initialized, selectedCategories,
                       previewImages, inputVars, toggles>>
        /\ \E f \in FaultChoices(PREVIEW_YIELD_EVERY, faulty, RenderFaults)
                  \cup FaultChoices(1, faulty, {"generateAsync"}) :
             IF f.fault = "generateAsync"
             THEN /\ tasks' = [tasks EXCEPT ![t] =
                                  Finished(tasks[t], Append(tasks[t].log, "error"))]
                  /\ Finally
                  /\ UNCHANGED <<currentScale, microtasks, rafQueue, frame>>
             ELSE PostRefresh(t, [tasks[t] EXCEPT !.saved = @ + 1,
                                                  !.log = Append(@, "completed")],
                              refreshCategoryPreviews(0, f, currentScale),
                              microtasks, frame)

\* the refresh of line 269 after `await yieldToBrowser()` (line 136)
PostRefreshStep(faulty) ==
    \E t \in TaskIds :
        /\ t = NextUp
        /\ tasks[t].pc = "postRefresh"
        /\ UNCHANGED <<started, engineVars, generator, initialized, selectedCategories,
                       previewImages, inputVars, toggles>>
        /\ \E f \in FaultChoices(PREVIEW_YIELD_EVERY, faulty, RenderFaults) :
             PostRefresh(t, tasks[t], refreshCategoryPreviews(tasks[t].pos, f, currentScale),
                         RestMicro, RestFrame)

\* the click listener of the refresh button after its guard (lines 176-178),
\* and its continuation after a yield: a throw of generateIcon rejects the
\* handler before its updateUiState()
RefreshHandler(t, k, r, mq, fr) ==
    /\ currentScale' = r.scale
    /\ microtasks' = mq
    /\ frame' = fr
    /\ tasks' = [i \in 1..Max(t, Len(tasks)) |->
                    IF i # t THEN tasks[i]
                    ELSE IF r.status = "yield" THEN [k EXCEPT !.pos = r.pos]
                    ELSE Finished(k, IF r.status = "threw" THEN <<"error">> ELSE <<>>)]
    /\ rafQueue' = IF r.status = "yield" THEN Append(rafQueue, t) ELSE rafQueue
    /\ IF r.status = "ended"
       THEN /\ ui' = updateUiState(isGenerating, initialized)
            /\ categoryList' = DisableCards(categoryList, isGenerating)
       ELSE /\ ui' = [ui EXCEPT !.refresh = TRUE]
            /\ categoryList' = categoryList

RefreshClick ==
    /\ started
    /\ Idle
    /\ ~ui.refresh
    /\ CountKind("refresh") < MaxRefreshes
    /\ initialized /\ ~isGenerating
    /\ \E f \in FaultChoices(PREVIEW_YIELD_EVERY, TRUE, RenderFaults) :
         RefreshHandler(Len(tasks) + 1, NewTask("refresh", "refresh"),
                        refreshCategoryPreviews(0, f, currentScale), microtasks, frame)
    /\ UNCHANGED <<started, engineVars, generator, initialized, flagVars,
                   selectedCategories, previewImages, inputVars, toggles>>

ContinueRefresh ==
    \E t \in TaskIds :
        /\ t = NextUp
        /\ tasks[t].pc = "refresh"
        /\ \E f \in FaultChoices(PREVIEW_YIELD_EVERY, TRUE, RenderFaults) :
             RefreshHandler(t, tasks[t], refreshCategoryPreviews(tasks[t].pos, f, currentScale),
                            RestMicro, RestFrame)
        /\ UNCHANGED <<started, engineVars, generator, initialized, flagVars,
                       selectedCategories, previewImages, inputVars, toggles>>

\* ------------------------------------------------------------ submit
\* the submit listener up to `await ensureGenerator()` (lines 181-184, 142-148)
Submit ==
    LET t == Len(tasks) + 1
        g == getIconGenerator(generatorPromise, promises)
        resolved == g.promises[g.generatorPromise].resolved
    IN  /\ started
        /\ Idle
        /\ ~ui.generate
        /\ CountKind("submit") < MaxSubmits
        /\ IF generator # 0
           THEN /\ tasks' = Append(tasks, NewTask("submit", "validate"))
                /\ microtasks' = <<t>>
                /\ UNCHANGED engineVars
           ELSE /\ generatorPromise' = g.generatorPromise
                /\ promises' = IF resolved THEN g.promises
                               ELSE AwaitPromise(g.promises, g.generatorPromise, t)
                /\ microtasks' = IF resolved THEN <<t>> ELSE <<>>
                /\ tasks' = Append(tasks, [NewTask("submit", "awaitGenerator") EXCEPT
                                  !.promise = g.generatorPromise,
                                  !.handle = IF resolved THEN g.generatorPromise ELSE 0])
        /\ UNCHANGED <<started, currentScale, generator, initialized, flagVars, gridVars,
                       inputVars, ui, rafQueue, frame, toggles>>

ContinueValidate == ValidateStep(TRUE)
ContinueLoop == LoopStep(TRUE)
ZipGenerated == ZipStep(TRUE)
ContinuePostRefresh == PostRefreshStep(TRUE)

\* ------------------------------------------------------------ specification
\* the texts the fields hold when the page is loaded
PageCounts == {<<"0">>, <<"2">>}
PagePixels == {<<"6", "4">>}

Init ==
    /\ started = FALSE
    /\ promises = <<>>
    /\ generatorPromise = 0
    /\ currentScale = NEUTRAL_SCALE
    /\ generator = 0
    /\ initialized = FALSE
    /\ isGenerating = FALSE
    /\ cancelRequested = FALSE
    /\ selectedCategories = {}
    /\ previewImages = <<>>
    /\ categoryList = <<>>
    /\ countInput \in PageCounts
    /\ pixelInput \in PagePixels
    /\ ui = [generate |-> FALSE, cancel |-> FALSE, count |-> FALSE, pixel |-> FALSE,
             refresh |-> FALSE]
    /\ tasks = <<>>
    /\ microtasks = <<>>
    /\ rafQueue = <<>>
    /\ frame = <<>>
    /\ toggles = 0

\* startup, submit and cancel: the pipeline
Next ==
    \/ Startup
    \/ P5Setup
    \/ Submit
    \/ ContinueEnsure
    \/ ContinueGrid
    \/ ContinueValidate
    \/ ContinueLoop
    \/ ZipGenerated
    \/ ContinuePostRefresh
    \/ CancelClick
    \/ BeginFrame

Spec == Init /\ [][Next]_vars

\* the pipeline under a host that runs what is queued: the microtasks and
\* the animation frames are run, the p5 setup is called, and
\* zip.generateAsync settles
HostStep ==
    \/ P5Setup
    \/ ContinueEnsure
    \/ ContinueGrid
    \/ ContinueValidate
    \/ ContinueLoop
    \/ ZipGenerated
    \/ ContinuePostRefresh
    \/ BeginFrame

Fairness == WF_vars(HostStep)

\* the submissions of a behaviour of the fair pipeline
MaxFairSubmits == 1

SubmitFair == CountKind("submit") < MaxFairSubmits /\ Submit

NextFair ==
    \/ Startup
    \/ P5Setup
    \/ SubmitFair
    \/ ContinueEnsure
    \/ ContinueGrid
    \/ ContinueValidate
    \/ ContinueLoop
    \/ ZipGenerated
    \/ ContinuePostRefresh
    \/ CancelClick
    \/ BeginFrame

SpecFair == Init /\ [][NextFair]_vars /\ Fairness

\* the pipeline with the refresh button and the checkboxes
NextPage ==
    \/ Next
    \/ RefreshClick
    \/ ContinueRefresh
    \/ Toggle

SpecPage == Init /\ [][NextPage]_vars

\* ------------------------------------------------------------ inputs
\* The page after its initialization, with what the user has typed into the
\* fields and left checked: the submit handler over a working backend.
InputCounts == {<<"x">>, <<"-", "3">>, <<"0">>, <<"2">>, <<"2", "0", "1">>,
                <<"1", "0", "0", "0", "0">>}
InputPixels == {<<"x">>, <<"-", "5">>, <<"4">>, <<"8">>, <<"9", "9", "9", "9">>}
InputSelections == {{}, {4}, {0, 9}, CategoryIds}

\* the runs of a scenario are kept to this many icons
MaxRunIcons == 6000

InitInput ==
    /\ started = TRUE
    /\ promises = <<[resolved |-> TRUE, waiters |-> <<>>]>>
    /\ generatorPromise = 1
    /\ currentScale = NEUTRAL_SCALE
    /\ generator = 1
    /\ initialized = TRUE
    /\ isGenerating = FALSE
    /\ cancelRequested = FALSE
    /\ selectedCategories \in InputSelections
    /\ previewImages = [i \in 1..Len(SYMBOL_CATEGORIES) |-> SYMBOL_CATEGORIES[i].id]
    /\ categoryList = [i \in 1..Len(SYMBOL_CATEGORIES) |->
                          [id |-> SYMBOL_CATEGORIES[i].id,
                           checked |-> SYMBOL_CATEGORIES[i].id \in selectedCategories,
                           disabled |-> FALSE]]
    /\ countInput \in InputCounts
    /\ pixelInput \in InputPixels
    /\ Cardinality(selectedCategories) * Min(MAX_PER_CATEGORY, ParseInt(countInput).val)
          <= MaxRunIcons
    /\ ui = updateUiState(FALSE, TRUE)
    /\ tasks = <<Finished(NewTask("init", "done"), <<>>)>>
    /\ microtasks = <<>>
    /\ rafQueue = <<>>
    /\ frame = <<>>
    /\ toggles = 0

SubmitValidate == ValidateStep(FALSE)
SubmitLoop == LoopStep(FALSE)
SubmitZip == ZipStep(FALSE)
SubmitPostRefresh == PostRefreshStep(FALSE)

NextInput ==
    \/ Submit
    \/ SubmitValidate
    \/ SubmitLoop
    \/ SubmitZip
    \/ SubmitPostRefresh
    \/ CancelClick
    \/ BeginFrame

SpecInput == InitInput /\ [][NextInput]_vars

Last(seq) == seq[Len(seq)]

\* ------------------------------------------------------------ dispatch table
\* The evaluation of the generator module over a registry: the one of the
\* code, or up to MaxRegistry entries with keys that have a drawer and keys
\* that have none.
MaxRegistry == 3
RegistryKeys == {<<"h","o","s","p","i","t","a","l">>, <<"s","h","r","i","n","e">>,
                 <<"l","i","g","h","t","h","o","u","s","e">>,
                 <<"n","u","r","s","i","n","g","-","h","o","m","e">>}
Registries ==
    {SYMBOL_CATEGORIES} \cup
    UNION {{[i \in 1..n |-> [id |-> i - 1, key |-> keys[i]]] :
               keys \in [1..n -> RegistryKeys]} : n \in 1..MaxRegistry}

InitModule ==
    /\ started = FALSE
    /\ promises = <<>>
    /\ generatorPromise = 0
    /\ currentScale = NEUTRAL_SCALE
    /\ generator = 0
    /\ initialized = FALSE
    /\ isGenerating = FALSE
    /\ cancelRequested = FALSE
    /\ selectedCategories = {}
    /\ previewImages = <<>>
    /\ categoryList = <<>>
    /\ countInput = <<"2">>
    /\ pixelInput = <<"8">>
    /\ ui = [generate |-> FALSE, cancel |-> FALSE, count |-> FALSE, pixel |-> FALSE,
             refresh |-> FALSE]
    /\ \E registry \in Registries :
          tasks = <<[NewTask("module", "load") EXCEPT !.active = registry]>>
    /\ microtasks = <<>>
    /\ rafQueue = <<>>
    /\ frame = <<>>
    /\ toggles = 0

\* the module builds DRAWERS from its registry, or its evaluation throws
LoadDrawers ==
    \E t \in TaskIds :
        LET built == BuildDrawers(tasks[t].active)
        IN  /\ tasks[t].kind = "module"
            /\ tasks[t].pc = "load"
            /\ tasks' = [tasks EXCEPT ![t].pc = IF built.threw THEN "threw" ELSE "loaded",
                                      ![t].call = built.drawers]
            /\ UNCHANGED <<started, engineVars, currentScale, generator, initialized,
                           flagVars, gridVars, inputVars, ui, microtasks, rafQueue,
                           frame, toggles>>

NextModule == LoadDrawers

SpecModule == InitModule /\ [][NextModule]_vars

\* ------------------------------------------------------------ documentation
\* the category table of the README (main.ts lines 322-342): id and key
README_CATEGORIES == <<
    [id |-> 0, key |-> <<"c","i","t","y","-","h","a","l","l">>],
    [id |-> 1, key |-> <<"p","o","l","i","c","e","-","b","o","x">>],
    [id |-> 2, key |-> <<"h","i","g","h","-","s","c","h","o","o","l">>],
    [id |-> 3, key |-> <<"p","o","s","t","-","o","f","f","i","c","e">>],
    [id |-> 4, key |-> <<"h","o","s","p","i","t","a","l">>],
    [id |-> 5, key |-> <<"s","h","r","i","n","e">>],
    [id |-> 6, key |-> <<"t","e","m","p","l","e">>],
    [id |-> 7, key |-> <<"m","u","s","e","u","m">>],
    [id |-> 8, key |-> <<"f","a","c","t","o","r","y">>],
    [id |-> 9, key |-> <<"n","u","r","s","i","n","g","-","h","o","m","e">>],
    [id |-> 10, key |-> <<"l","i","g","h","t","h","o","u","s","e">>],
    [id |-> 11, key |-> <<"c","a","s","t","l","e","-","r","u","i","n","s">>],
    [id |-> 12, key |-> <<"h","o","t","-","s","p","r","i","n","g">>],
    [id |-> 13, key |-> <<"f","i","s","h","i","n","g","-","p","o","r","t">>],
    [id |-> 14, key |-> <<"o","r","c","h","a","r","d">>],
    [id |-> 15, key |-> <<"b","r","o","a","d","l","e","a","f","-","f","o","r","e","s","t">>],
    [id |-> 16, key |-> <<"c","o","n","i","f","e","r","o","u","s","-","f","o","r","e","s","t">>],
    [id |-> 17, key |-> <<"l","i","b","r","a","r","y">>],
    [id |-> 18, key |-> <<"w","i","n","d","m","i","l","l">>] >>

\* ------------------------------------------------------------ engine
\* the page and other users of the exported getIconGenerator
NextEngine ==
    \/ Startup
    \/ CallGetIconGenerator
    \/ P5Setup
    \/ ContinueCaller
    \/ ContinueEnsure
    \/ ContinueGrid
    \/ BeginFrame

SpecEngine == Init /\ [][NextEngine]_vars

\* ------------------------------------------------------------ rendering
\* a holder of the handle calls generateIcon(categoryId, size) directly
\* (part_001 lines 58-59); the backend fails at one step of the call or not
\* at all
RenderIds == {-1, 0, 9, 10}
RenderSizes == {4, MIN_PIXEL_SIZE, DEFAULT_CANVAS_SIZE, MAX_PIXEL_SIZE}
MaxRenders == 2

\* a number passed as categoryId: an integer, or a number that is none (1.5,
\* NaN), of which `value` keeps the integer part
Integer(i) == [integer |-> TRUE, value |-> i]
NonInteger(i) == [integer |-> FALSE, value |-> i]
RenderNumbers == {Integer(i) : i \in RenderIds} \cup {NonInteger(1)}

\* the factors a drawer may sample for a g.strokeWeight(size * p.random(a, b))
\* call, in hundredths: drawCityHall from [0.05, 0.08) and [0.04, 0.06), the
\* other drawers from [0.07, 0.1)
DrawerFactors(categoryId) == IF categoryId = 0 THEN {4, 7} ELSE {7, 9}

\* g.strokeWeight(size * factor) of a drawer: the thickness it sets, in
\* hundredths of a pixel
strokeWeight(size, factor) == size * factor

\* stroke(size, factor) of DRAWING_HELPERS (part_001 line 122) at
\* currentScale = scale: Math.max(1, (size * factor) / currentScale), in
\* hundredths of a pixel
stroke(size, factor, scale) == Max(100, (size * factor * 100) \div scale)

\* a generateIcon that leaves out Number.isInteger(categoryId)
generateIconAnyNumber(categoryId, size, fault, sample, scale) ==
    createIconForCategory(categoryId.value, size, fault, sample, scale)

\* generateIcon(categoryId, size) of the handle (part_001 lines 58-59) with
\* the Number.isInteger test of line 89, which throws before anything else
generateIcon(categoryId, size, fault, sample, scale) ==
    IF ~categoryId.integer
    THEN [ok |-> FALSE, icon |-> [id |-> -1, size |-> 0, drawer |-> <<>>],
          currentScale |-> scale, created |-> FALSE, pushed |-> 0, drawn |-> FALSE,
          removed |-> FALSE]
    ELSE createIconForCategory(categoryId.value, size, fault, sample, scale)

\* the holder's next call; its record keeps the last call (with the scale
\* in force and the thickness set when its drawer ran) and the outcomes of
\* all
Render ==
    \E id \in RenderNumbers, size \in RenderSizes, fault \in RenderFaults,
       sample \in ScaleSamples :
      \E factor \in DrawerFactors(id.value) :
        LET made == generateIcon(id, size, fault, sample, currentScale)
            holders == {t \in TaskIds : tasks[t].kind = "render"}
            drawn == [sample |-> sample, factor |-> factor,
                      strokeWeight |-> strokeWeight(Max(8, size), factor)]
            entry == [categoryId |-> id, size |-> size, fault |-> fault,
                      before |-> currentScale, made |-> made,
                      drawn |-> IF made.drawn THEN <<drawn>> ELSE <<>>]
            outcome == IF made.ok THEN "ok" ELSE "threw"
        IN  /\ Idle
            /\ generator # 0
            /\ \A t \in holders : Len(tasks[t].log) < MaxRenders
            /\ currentScale' = made.currentScale
            /\ tasks' = IF holders = {}
                        THEN Append(tasks, [NewTask("render", "holding") EXCEPT
                                               !.call = <<entry>>, !.log = <<outcome>>])
                        ELSE [t \in TaskIds |->
                                 IF t \in holders
                                 THEN [tasks[t] EXCEPT !.call = <<entry>>,
                                                       !.log = Append(@, outcome)]
                                 ELSE tasks[t]]
            /\ UNCHANGED <<started, engineVars, generator, initialized, flagVars,
                           gridVars, inputVars, ui, microtasks, rafQueue, frame, toggles>>

InitRender ==
    /\ InitInput
    /\ selectedCategories = CategoryIds
    /\ countInput = <<"2">>
    /\ pixelInput = <<"8">>

NextRender == Render

SpecRender == InitRender /\ [][NextRender]_vars

\* ------------------------------------------------------------ claims
Ends(log, message) == log # <<>> /\ log[Len(log)] = message

\* C1 (main.ts:181-228): at most one generation run is ever in progress, and
\* a submit handler that resumes while a run is in progress creates no
\* archive, generates no icon and leaves isGenerating and cancelRequested
\* alone.
C1_BusyRejected ==
    [][/\ Cardinality({t \in DOMAIN tasks' :
                          tasks'[t].pc \in {"loop", "compress", "postRefresh"}}) <= 1
       /\ \A t \in TaskIds :
            (t = NextUp /\ tasks[t].pc = "validate" /\ Running # {})
                => /\ tasks'[t].pc = "done"
                   /\ tasks'[t].icons = 0
                   /\ UNCHANGED flagVars]_vars

\* C2 (main.ts:163-170, 258-267): once a cancel click was accepted during a
\* run, saveAs is never invoked for that run and the run ends with the
\* cancelled message.
C2_CancelMeansNoDownload ==
    [][\A t \in TaskIds :
          tasks[t].cancelAt # <<>>
              => /\ tasks'[t].saved = 0
                 /\ tasks'[t].pc = "done" => Last(tasks'[t].log) = "cancelled"]_vars

\* the cancel click was accepted while run k waited at the yield after the
\* last icon of a category that is not its last
CancelledAtBoundary(k) ==
    /\ k.cancelAt # <<>>
    /\ k.cancelAt[1].pc = "loop"
    /\ k.cancelAt[1].iconIndex + 1 = k.perCategory
    /\ k.cancelAt[1].index + 1 < Len(k.active)

\* the archive holds exactly n folders of c files each
FoldersOf(zip, n, c) ==
    /\ Len(zip) = n
    /\ \A i \in 1..n : Cardinality(DOMAIN zip[i].files) = c

\* C3 (main.ts:229-261, 274-278): a run cancelled at the yield after the last
\* icon of its k-th category (k < m) keeps an archive of exactly k folders of
\* c files, is never downloaded, and ends cancelled with isGenerating and
\* cancelRequested false.
C3_CancelAtCategoryBoundary ==
    [][\A t \in TaskIds :
          CancelledAtBoundary(tasks[t])
              => /\ FoldersOf(tasks[t].zip, tasks[t].cancelAt[1].index + 1,
                              tasks[t].perCategory)
                 /\ tasks'[t].saved = 0
                 /\ \/ /\ tasks'[t].pc = "loop"
                       /\ tasks'[t].zip = tasks[t].zip
                    \/ /\ tasks'[t].pc = "done"
                       /\ Last(tasks'[t].log) = "cancelled"
                       /\ ~isGenerating' /\ ~cancelRequested']_vars

\* the decimal digits of i, zero-padded to 2 and to 4 places
Digits2(i) == <<DigitChar(i \div 10), DigitChar(i % 10)>>
Digits4(i) == <<DigitChar(i \div 1000), DigitChar((i \div 100) % 10),
                DigitChar((i \div 10) % 10), DigitChar(i % 10)>>

\* the registry entries of the ids in S, in registry order
InRegistryOrder(S) == SelectSeq(SYMBOL_CATEGORIES, LAMBDA c : c.id \in S)

\* the archive zip is the one of a completed run over S with c icons each
LaidOut(zip, S, c) ==
    LET order == InRegistryOrder(S)
    IN  /\ Len(zip) = Cardinality(S)
        /\ \A i \in 1..Len(zip) :
              /\ zip[i].name = Digits2(i) \o <<"_">> \o order[i].key
              /\ DOMAIN zip[i].files = {Digits4(j) \o <<".", "p", "n", "g">> : j \in 1..c}
              /\ \A name \in DOMAIN zip[i].files : zip[i].files[name].id = order[i].id
        /\ \A i, j \in 1..Len(zip) : zip[i].name = zip[j].name => i = j

\* C4 (main.ts:217-256, 155-161): the archive a run hands to saveAs has one
\* folder per selected category, in registry order, named by the 2-digit
\* 1-based ordinal, '_' and the slugified key, all names distinct; each folder
\* holds exactly the files 0001.png .. c.png (4 digits), each an icon of the
\* folder's category made by this run.
C4_ArchiveLayout ==
    \A t \in TaskIds :
        tasks[t].pc \in {"compress", "postRefresh"}
            => /\ LaidOut(tasks[t].zip, selectedCategories, tasks[t].perCategory)
               /\ tasks[t].icons = Cardinality(selectedCategories) * tasks[t].perCategory
               /\ \A i \in 1..Len(tasks[t].active) :
                     slugify(tasks[t].active[i].key) = tasks[t].active[i].key

C4_Witness ==
    \E t \in TaskIds :
        /\ tasks[t].saved = 1
        /\ tasks[t].pc = "postRefresh"
        /\ Len(tasks[t].zip) = Len(SYMBOL_CATEGORIES)
        /\ tasks[t].perCategory > YIELD_EVERY

\* C5 (main.ts:229-279): a run is saved at most once, only from the settled
\* compression and only when all |S| * c icons are in the archive; the loops
\* reach the compression only uncancelled and with all icons made; a run that
\* ends has been saved exactly when it reported completion, and its end
\* leaves isGenerating false and the generate button enabled.
C5_DownloadOnceThenReady ==
    [][\A t \in TaskIds :
          LET k == tasks[t]
              k2 == tasks'[t]
          IN  /\ k2.saved <= 1
              /\ k2.saved # k.saved
                    => /\ k.pc = "compress"
                       /\ k.icons = Len(k.active) * k.perCategory
                       /\ Len(k.zip) = Len(k.active)
                       /\ \A i \in 1..Len(k.zip) :
                             Cardinality(DOMAIN k.zip[i].files) = k.perCategory
              /\ (k.pc \in {"validate", "loop"} /\ k2.pc = "compress")
                    => /\ k2.icons = Len(k2.active) * k2.perCategory
                       /\ ~cancelRequested
              /\ (k.kind = "submit" /\ k.pc # "done" /\ k2.pc = "done")
                    => (k2.saved = 1 <=> \E i \in 1..Len(k2.log) : k2.log[i] = "completed")
              /\ (InRun(t) /\ k2.pc = "done" /\ k2.saved = 1)
                    => ~isGenerating' /\ ~ui'.generate]_vars

C5_Witness ==
    \E t1, t2 \in TaskIds :
        /\ t1 < t2
        /\ tasks[t1].pc = "done" /\ tasks[t1].saved = 1
        /\ Ends(tasks[t1].log, "completed")
        /\ Running = {t2}

\* C6 (main.ts:229-279, part_001:75-86): a throw of generateIcon or of the
\* folder creation in the loop ends the run at once: the error is reported,
\* nothing was saved, isGenerating and cancelRequested are false and the
\* generate button is enabled; a handler that has ended does nothing more
\* (no icon, no download, no retry).
C6_ErrorAbortsRun ==
    [][\A t \in TaskIds :
          LET k == tasks[t]
              k2 == tasks'[t]
          IN  /\ (k.pc \in {"validate", "loop"} /\ Ends(k2.log, "error"))
                    => /\ k2.pc = "done"
                       /\ k2.saved = 0
                       /\ ~isGenerating' /\ ~cancelRequested'
                       /\ ~ui'.generate
              /\ k.pc = "done" => k2 = k]_vars

C6_Witness ==
    \E t1, t2 \in TaskIds :
        /\ t1 < t2
        /\ tasks[t1].pc = "done" /\ tasks[t1].log = <<"started", "error">>
        /\ tasks[t1].saved = 0
        /\ Running = {t2}

\* the fields of a submit do not make a request: a count or a size that is
\* no number or not positive, or nothing selected
BadRequest ==
    LET count == ParseInt(countInput)
        size == ParseInt(pixelInput)
    IN  \/ count.nan \/ count.val <= 0
        \/ size.nan \/ size.val <= 0
        \/ selectedCategories = {}

\* C7 (main.ts:190-215): a submit whose count or size is no positive number,
\* or whose selection is empty, starts no run, makes no archive and no icon,
\* and leaves all state as it was, the two fields and the selection included.
C7_InputErrorsChangeNothing ==
    [][\A t \in TaskIds :
          (t = NextUp /\ tasks[t].pc = "validate" /\ BadRequest)
              => /\ tasks'[t].pc = "done"
                 /\ tasks'[t].icons = 0
                 /\ tasks'[t].zip = EmptyZip
                 /\ UNCHANGED <<flagVars, inputVars, gridVars, ui, currentScale,
                                engineVars, generator, initialized>>]_vars

\* every icon in the archive of run k has the run's pixel size
IconsOfSize(k) ==
    \A i \in 1..Len(k.zip) :
        \A name \in DOMAIN k.zip[i].files : k.zip[i].files[name].size = k.pixelSize

C9_SingleFlight ==
    /\ Len(promises) <= 1
    /\ generatorPromise = Len(promises)
    /\ generator \in {0, generatorPromise}
    /\ \A t \in TaskIds :
          tasks[t].kind \in {"caller", "init"} /\ tasks[t].promise # 0
              => /\ tasks[t].promise = generatorPromise
                 /\ tasks[t].handle \in {0, generatorPromise}
                 /\ (tasks[t].pc = "awaitGenerator" /\ tasks[t].handle = 0)
                       => /\ ~promises[generatorPromise].resolved
                          /\ \E i \in 1..Len(promises[generatorPromise].waiters) :
                                promises[generatorPromise].waiters[i] = t
                 /\ (tasks[t].kind = "caller" /\ tasks[t].pc = "done")
                       => tasks[t].handle = generatorPromise

C9_Witness ==
    /\ generatorPromise = 1
    /\ promises[generatorPromise].resolved
    /\ Cardinality({t \in TaskIds : tasks[t].kind = "caller" /\ tasks[t].pc = "done"
                                      /\ tasks[t].handle = 1}) >= 2
    /\ \E t \in TaskIds : /\ tasks[t].kind = "caller"
                          /\ tasks[t].pc = "awaitGenerator"
                          /\ tasks[t].handle = 1
    /\ generator = 1

\* C10 (part_001:120-144): between the calls of generateIcon, whatever step
\* of a call threw, currentScale is neutral and the surface's pushed drawing
\* state was popped.
C10_TransformReset ==
    /\ currentScale = NEUTRAL_SCALE
    /\ \A t \in TaskIds :
          tasks[t].kind = "render" => tasks[t].call[1].made.pushed = 0

\* the number is the id of a registry entry
ValidId(number) == number.integer /\ number.value \in 0..(Len(SYMBOL_CATEGORIES) - 1)

\* C11 (part_001:88-114): with a working backend generateIcon returns the
\* icon of the category for every id of the registry and every size in
\* 8..512; for every other number it throws before a surface is created or
\* a transform or drawer runs, returns no icon and leaves currentScale as it
\* was.
C11_IconExactlyForValidIds ==
    \A t \in TaskIds :
        tasks[t].kind = "render"
            => LET c == tasks[t].call[1]
               IN  /\ (ValidId(c.categoryId) /\ c.fault = "none" /\ c.size \in 8..512)
                          => /\ c.made.ok
                             /\ c.made.icon.id = c.categoryId.value
                             /\ c.made.icon.size = c.size
                             /\ c.made.icon.drawer # <<>>
                   /\ ~ValidId(c.categoryId)
                          => /\ ~c.made.ok
                             /\ c.made.icon.drawer = <<>>
                             /\ ~c.made.created /\ ~c.made.drawn /\ c.made.pushed = 0
                             /\ c.made.currentScale = c.before
                             /\ currentScale = c.before
                   /\ c.made.ok => ValidId(c.categoryId)

C11_Witness ==
    \E t \in TaskIds :
        /\ tasks[t].kind = "render"
        /\ tasks[t].log = <<"ok", "threw">>
        /\ ~tasks[t].call[1].categoryId.integer
        /\ tasks[t].call[1].size = MAX_PIXEL_SIZE

\* C12 (part_001:27-45, 370-397, 105-107): the ids of the registry are its
\* indices 0..N-1, every key has its drawer, and DRAWERS has N entries, entry
\* i being the drawer of the key of category i; a module whose registry has
\* a key without a drawer throws when it builds the table and otherwise its
\* table has a drawer at every index.
C12_RegistryDispatch ==
    /\ \A i \in 1..Len(SYMBOL_CATEGORIES) :
          /\ SYMBOL_CATEGORIES[i].id = i - 1
          /\ SYMBOL_CATEGORIES[i].key \in DRAWERS_BY_KEY
          /\ DRAWERS[i] = SYMBOL_CATEGORIES[i].key
    /\ Len(DRAWERS) = Len(SYMBOL_CATEGORIES)
    /\ \A t \in TaskIds :
          tasks[t].kind = "module" /\ tasks[t].pc # "load"
              => LET registry == tasks[t].active
                     missing == {i \in 1..Len(registry) :
                                    registry[i].key \notin DRAWERS_BY_KEY}
                 IN  IF missing # {}
                     THEN tasks[t].pc = "threw" /\ tasks[t].call = <<>>
                     ELSE /\ tasks[t].pc = "loaded"
                          /\ Len(tasks[t].call) = Len(registry)
                          /\ \A i \in 1..Len(registry) :
                                /\ tasks[t].call[i] = registry[i].key
                                /\ tasks[t].call[i] \in DRAWERS_BY_KEY

C12_Witness ==
    \E t \in TaskIds :
        /\ tasks[t].kind = "module"
        /\ tasks[t].pc = "threw"
        /\ Len(tasks[t].active) = 3
        /\ tasks[t].active[1].key \in DRAWERS_BY_KEY
        /\ tasks[t].active[3].key \notin DRAWERS_BY_KEY

\* C13 (part_001:120-127, 148-322): the thickness a drawer sets during a
\* render is max(1, size * f / s) for its factor f and the scale s in force,
\* and so at least 1 pixel.
C13_StrokeCompensated ==
    \A t \in TaskIds :
        (tasks[t].kind = "render" /\ tasks[t].call[1].drawn # <<>>)
            => LET c == tasks[t].call[1]
                   d == c.drawn[1]
               IN  /\ d.strokeWeight = Max(100, (Max(8, c.size) * d.factor * 100) \div d.sample)
                   /\ d.strokeWeight >= 100

\* C14 (main.ts:285-289, 320-342, part_001:27-45): the categories the page
\* offers once its grid is rendered are the 19 of the README table, with the
\* ids 0..18 and each id on the key listed for it.
C14_CatalogIsReadme ==
    (\E t \in TaskIds : tasks[t].kind = "init" /\ tasks[t].pc = "done")
        => /\ Len(categoryList) = Len(README_CATEGORIES)
           /\ Len(SYMBOL_CATEGORIES) = Len(README_CATEGORIES)
           /\ \A i \in 1..Len(README_CATEGORIES) :
                 /\ categoryList[i].id = README_CATEGORIES[i].id
                 /\ SYMBOL_CATEGORIES[i] = README_CATEGORIES[i]

\* the files in all folders of an archive
FileCount(zip) ==
    LET RECURSIVE Sum(_)
        Sum(i) == IF i = 0 THEN 0 ELSE Cardinality(DOMAIN zip[i].files) + Sum(i - 1)
    IN  Sum(Len(zip))

\* C15 (main.ts:230-256): once a cancel click was accepted while a run was
\* in its loops, the run calls generateIcon no more, files nothing more and
\* creates no further folder, its current category left as it is; and every
\* icon a run has generated is in its archive whenever the run is suspended.
C15_PolledCancellation ==
    [][\A t \in TaskIds :
          /\ (tasks[t].cancelAt # <<>> /\ tasks[t].cancelAt[1].pc = "loop")
                => \/ tasks'[t].pc = "done" /\ tasks'[t].saved = 0
                   \/ /\ tasks'[t].pc = "loop"
                      /\ tasks'[t].icons = tasks[t].icons
                      /\ tasks'[t].zip = tasks[t].zip
          /\ tasks'[t].pc \in {"loop", "compress"}
                => tasks'[t].icons = FileCount(tasks'[t].zip)]_vars

\* C16 (main.ts:242-255, 52-53): a run yields, with a progress line, after
\* every 200th icon of a category and after the last icon of each category
\* and nowhere else; no stretch between two yields makes more than 200
\* icons; the produced count reported for a category grows strictly and its
\* last report, before the next category or the compression, is the count
\* per category.
C16_YieldCadence ==
    [][\A t \in TaskIds :
          LET k == tasks[t]
              k2 == tasks'[t]
              p == k.progress[1]
              p2 == k2.progress[1]
          IN  /\ (k2.pc = "loop" /\ k2 # k /\ k2.cancelAt = k.cancelAt)
                    => /\ k2.icons - k.icons \in 1..200
                       /\ p2.produced = k2.iconIndex + 1
                       /\ p2.total = k2.perCategory
                       /\ p2.category = k2.active[k2.index + 1].id
                       /\ p2.produced % 200 = 0 \/ p2.produced = p2.total
                       /\ Cardinality(DOMAIN k2.zip[Len(k2.zip)].files) = p2.produced
                       /\ k.pc = "loop"
                             => IF k2.index = k.index
                                THEN /\ p2.produced > p.produced
                                     /\ p2.produced - p.produced = k2.icons - k.icons
                                ELSE /\ k2.index = k.index + 1
                                     /\ p.produced = p.total
                                     /\ p2.produced = k2.icons - k.icons
              /\ (k.pc = "loop" /\ k2.pc = "compress")
                    => /\ p.produced = p.total
                       /\ k.index + 1 = Len(k.active)
                       /\ k2.icons = k.icons]_vars

C16_Witness ==
    \E t \in TaskIds :
        /\ tasks[t].pc = "loop"
        /\ Len(tasks[t].zip) = 2
        /\ tasks[t].progress = <<[category |-> 9, produced |-> 201, total |-> 201]>>

\* C17 (main.ts:229-279): when the host runs the queued frames and the
\* compression settles, every run that has started ends, and isGenerating
\* becomes false again; and a run ends only completed (possibly with an
\* error of the preview refresh after it), cancelled or with an error.
C17_RunsTerminate ==
    /\ \A t \in 1..(MaxFairSubmits + 1) :
          (t \in TaskIds /\ InRun(t)) ~> (t \in TaskIds /\ tasks[t].pc = "done")
    /\ isGenerating ~> ~isGenerating
    /\ [][\A t \in TaskIds :
             (InRun(t) /\ tasks'[t].pc = "done")
                 => \/ Ends(tasks'[t].log, "cancelled") /\ tasks'[t].saved = 0
                    \/ Ends(tasks'[t].log, "error")
                    \/ Ends(tasks'[t].log, "completed") /\ tasks'[t].saved = 1]_vars

C17_Witness ==
    \E t \in TaskIds :
        /\ tasks[t].pc = "done" /\ Ends(tasks[t].log, "cancelled")
        /\ ~isGenerating /\ ~cancelRequested
        /\ rafQueue = <<>> /\ frame = <<>> /\ microtasks = <<>>

\* C18 (main.ts:106-124, 142-153): once every ensureGenerator invocation
\* that was started has finished, the grid holds one card per registry
\* category, the preview map one entry per category, and every registry id
\* is selected.
Ensuring == {t \in TaskIds : tasks[t].pc \in {"awaitGenerator", "grid"}}

C18_InitializationIdempotent ==
    (initialized /\ Ensuring = {})
        => /\ Len(categoryList) = Len(SYMBOL_CATEGORIES)
           /\ \A i \in 1..Len(categoryList) : categoryList[i].id = SYMBOL_CATEGORIES[i].id
           /\ Len(previewImages) = Len(SYMBOL_CATEGORIES)
           /\ {previewImages[i] : i \in 1..Len(previewImages)} = CategoryIds
           /\ selectedCategories = CategoryIds

\* C19 (main.ts:219-222, 274-278, 55-66): while some run is in its
\* generation loop or compressing its archive, isGenerating is true and the
\* generate and refresh buttons and the two inputs are disabled.
Generating == {t \in TaskIds : tasks[t].kind = "submit" /\ tasks[t].pc \in {"loop", "compress"}}

C19_GeneratingWhileRunning ==
    Generating # {}
        => /\ isGenerating
           /\ ui.generate /\ ui.refresh /\ ui.count /\ ui.pixel

\* C20 (main.ts:163-170, 219-222, 274-278): cancelRequested is true only
\* while isGenerating is true; a cancel request is taken only while a run is
\* flagged (otherwise the click changes nothing); every run begins with
\* cancelRequested false; and a run ends cancelled only after a cancel
\* click made during that run.
C20_CancelOnlyWhileGenerating ==
    /\ [](cancelRequested => isGenerating)
    /\ [][/\ (~cancelRequested /\ cancelRequested') => (isGenerating /\ isGenerating')
          /\ \A t \in TaskIds :
                /\ (tasks[t].pc = "validate" /\ InRun(t)') => ~cancelRequested'
                /\ (InRun(t) /\ tasks'[t].pc = "done" /\ Ends(tasks'[t].log, "cancelled"))
                      => tasks[t].cancelAt # <<>>]_vars

C20_Witness ==
    \E t1, t2 \in TaskIds :
        /\ t1 < t2
        /\ tasks[t1].pc = "done" /\ Ends(tasks[t1].log, "cancelled")
        /\ tasks[t2].pc = "done" /\ Ends(tasks[t2].log, "completed") /\ tasks[t2].saved = 1
        /\ ~cancelRequested

\* C21 (main.ts:172-179, 126-140, 181-228): a preview refresh started by
\* the refresh button and a generation run are never in progress together:
\* no run is between its start and its finally block while a refresh
\* handler is suspended at a yield of refreshCategoryPreviews.
Refreshing == {t \in TaskIds : tasks[t].kind = "refresh" /\ tasks[t].pc = "refresh"}

C21_RefreshExcludesRun == ~(Refreshing # {} /\ Running # {})

====
